---- MODULE Spec2Model ----
(***************************************************************************)
(* The anagram game of src/vocab/flask_vocab.py: a vocabulary shared by    *)
(* all requests, a per-browser Flask session (jumble, target_count,        *)
(* matches) and the handlers index ("start"), keep_going ("peek") and      *)
(* check ("submit").                                                       *)
(*                                                                         *)
(* Strings are sequences of one-letter strings.  Python's None, where a    *)
(* string is expected, is the reserved sequence NoneText.  An optional     *)
(* integer is a record [isNone, val].                                      *)
(*                                                                         *)
(* LetterBag, Vocab, jumbled and config are imported by the source but     *)
(* are not part of it; they are modelled from sections 4.1-4.3 of the      *)
(* specification.                                                          *)
(***************************************************************************)
EXTENDS Integers, Sequences, FiniteSets, TLC

\* ------------------------------------------------------------------ bounds

\* Candidate texts are all strings over Letters of length 0..MaxTextLen.
MaxTextLen == 2
\* CONFIG.SUCCESS_AT_COUNT ranges over -1..MaxThreshold.
MaxThreshold == 3
\* An integer CONFIG.SEED ranges over -1..MaxSeed.
MaxSeed == 1
\* Where several requests or browsers interleave, CONFIG.SUCCESS_AT_COUNT
\* ranges over 1..MaxGameThreshold.
MaxGameThreshold == 2

Letters == {"a", "b"}

\* The word sources CONFIG.VOCAB may name: anagrams (ab/ba), a word needing a
\* letter twice (aa), a source with a repeated word, and an empty source.
VocabSources ==
    { << <<"a","b">>, <<"b","a">>, <<"b">> >>,
      << <<"a","a">>, <<"a">>, <<"b">> >>,
      << <<"a","b">>, <<"a","b">>, <<"b">> >>,
      << >> }

\* The browsers (session cookies) that may exist.
Clients == {1, 2}

\* The two checks of one browser that may be under way at the same time.
Slots == {"first", "second"}

\* ------------------------------------------------------- values and helpers

NoneText == <<"None">>

StringsUpTo(n) == UNION { [1..k -> Letters] : k \in 0..n }

\* request.args.get("text", type=str): a string, or None when absent.
Texts == StringsUpTo(MaxTextLen) \cup {NoneText}

NoneInt == [isNone |-> TRUE, val |-> 0]
SomeInt(n) == [isNone |-> FALSE, val |-> n]

Min(a, b) == IF a <= b THEN a ELSE b

\* Python's "x in list".
InList(x, l) == \E i \in 1..Len(l) : l[i] = x

\* ------------------------------------------------------------- LetterBag

\* Occurrences of ch in s.
Count(s, ch) == Cardinality({i \in 1..Len(s) : s[i] = ch})

\* LetterBag(jumble).contains(text) for a string text.
Contains(jumble, text) ==
    \A i \in 1..Len(text) : Count(text, text[i]) <= Count(jumble, text[i])

\* LetterBag(jumble).contains(text) as check calls it: the specification
\* gives no value for a missing text, so onNone stands for whichever
\* boolean the call yields then.
LetterBagContains(jumble, text, onNone) ==
    IF text = NoneText THEN onNone ELSE Contains(jumble, text)

\* ----------------------------------------------------------------- Vocab

RECURSIVE Dedup(_, _)
Dedup(src, acc) ==
    IF src = << >> THEN acc
    ELSE Dedup(Tail(src), IF InList(Head(src), acc) THEN acc
                          ELSE Append(acc, Head(src)))

\* Vocab(CONFIG.VOCAB): duplicates removed, first-seen order kept.
VocabConstruct(src) == Dedup(src, << >>)

\* Vocab(...) may raise on an empty word list: the specification has the
\* construction fail then (4.2) and also has a start on an empty vocabulary
\* fail (4.4, 8), so both an import that fails and one that goes on with an
\* empty vocabulary are allowed.
VocabConstructMayRaise(src) == VocabConstruct(src) = << >>

\* WORDS.has(text): exact membership, False for None.
Has(words, text) == text # NoneText /\ InList(text, words)

\* WORDS.as_list()
AsList(words) == words

\* ---------------------------------------------------------------- jumbled

RECURSIVE ConcatSel(_, _, _)
\* The letters of the words whose index is in sel, from index i on.
ConcatSel(words, sel, i) ==
    IF i > Len(words) THEN << >>
    ELSE (IF i \in sel THEN words[i] ELSE << >>) \o ConcatSel(words, sel, i + 1)

\* Every arrangement of the letters of s.
PermsOf(s) ==
    { t \in [1..Len(s) -> Letters] :
        \A ch \in Letters : Count(t, ch) = Count(s, ch) }

\* s rotated left by k places.
Rotate(s, k) ==
    IF Len(s) = 0 THEN s
    ELSE [i \in 1..Len(s) |-> s[((i - 1 + k) % Len(s)) + 1]]

\* jumbled(words, n, seed) raises for a count that is not positive.
JumbledRaises(words, n) == n <= 0

\* The strings jumbled(words, n, seed) may return for n > 0 (a count above
\* len(words) is clamped to it): with a seed one string, fixed by
\* (words, n, seed); without a seed any arrangement of the letters of any
\* n of the words.
Jumbled(words, n, seed) ==
    LET k == Min(n, Len(words))
    IN  IF seed.isNone
        THEN UNION { PermsOf(ConcatSel(words, sel, 1)) :
                       sel \in {S \in SUBSET (1..Len(words)) :
                                  Cardinality(S) = k} }
        ELSE { Rotate(ConcatSel(words, 1..k, 1), seed.val) }

\* ------------------------------------------------------------------ state

VARIABLES
    CONFIG,     \* config.configuration(): VOCAB, SEED, SUCCESS_AT_COUNT
    up,         \* the module was imported without an exception
    WORDS,      \* the shared Vocab object (its word list)
    SEED,       \* the module-level SEED after int(...)
    clients,    \* the browsers taking part in the run
    session,    \* per browser, the stored Flask session (its cookie)
    found,      \* per browser, the texts answered "new match" since its start
    phase,      \* per browser, where its game stands (section 4.4's states)
    inflight,   \* per browser, the checks sent and not yet answered
    overlapped, \* per browser, a check was answered on an outdated session
    last        \* the most recent request: what was asked and what came back

vars == <<CONFIG, up, WORDS, SEED, clients, session, found, phase, inflight,
          overlapped, last>>

\* A Flask session: the keys set so far and their values (a value whose
\* key is not set is a placeholder that is never read).
EmptySession ==
    [keys |-> {}, jumble |-> << >>, target_count |-> 0, matches |-> << >>]

\* flask.session[key] = value
SetKey(sess, key, value) ==
    [sess EXCEPT !.keys = @ \cup {key}, ![key] = value]

InProgress(sess) == sess.keys = {"jumble", "target_count", "matches"}

\* A JSON response; keys names the members present.  The Python literals
\* False and None in redirect_url and message are the strings "False" and
\* "None".
NoMessage == [fmt |-> "None", args |-> << >>]
NoResponse ==
    [keys |-> {}, result |-> FALSE, redirect_url |-> "False",
     matches |-> << >>, target |-> 0, message |-> NoMessage, matched |-> FALSE]

\* phase is the state of section 4.4 as the answers imply it: "Unstarted"
\* until an index succeeds, "Completed" once a check has answered Success,
\* "InProgress" otherwise, and "Restarted" for a game that was started from
\* "Completed" and has had no check yet.
\* A slot with no check under way, and one with a check sent along with
\* the session sent.
NoCheck ==
    [busy |-> FALSE, text |-> NoneText, sent |-> EmptySession,
     onNone |-> FALSE]
SentCheck(text, sent, onNone) ==
    [busy |-> TRUE, text |-> text, sent |-> sent, onNone |-> onNone]

NoRequest ==
    [op |-> "none", client |-> 0, text |-> NoneText, before |-> EmptySession,
     raised |-> FALSE, outcome |-> "none", response |-> NoResponse,
     seed |-> NoneInt, phase |-> "Unstarted"]

\* ------------------------------------------------------- module globals

\* CONFIG.SEED: an integer (or a string of digits), some other string, or
\* nothing at all.
ConfigSeeds ==
    { [kind |-> "int", val |-> n] : n \in -1..MaxSeed }
      \cup { [kind |-> "str", val |-> 0], [kind |-> "none", val |-> 0] }

\* int(SEED) raises TypeError for None, which "except ValueError" lets through.
ParseSeedRaises(cs) == cs.kind = "none"

\* SEED = int(SEED), or None on ValueError.
ParseSeed(cs) == IF cs.kind = "int" THEN SomeInt(cs.val) ELSE NoneInt

\* Whether the import of the module may succeed (TRUE) or fail (FALSE).
ImportOutcomes(cfg) ==
    IF ParseSeedRaises(cfg.SEED) THEN {FALSE}
    ELSE IF VocabConstructMayRaise(cfg.VOCAB) THEN {FALSE, TRUE}
    ELSE {TRUE}

InitWith(cs) ==
    /\ CONFIG \in [VOCAB : VocabSources, SEED : ConfigSeeds,
                   SUCCESS_AT_COUNT : -1..MaxThreshold]
    /\ up \in ImportOutcomes(CONFIG)
    /\ WORDS = VocabConstruct(CONFIG.VOCAB)
    /\ SEED = ParseSeed(CONFIG.SEED)
    /\ clients = cs
    /\ session = [c \in Clients |-> EmptySession]
    /\ found = [c \in Clients |-> << >>]
    /\ phase = [c \in Clients |-> "Unstarted"]
    /\ inflight = [c \in Clients |-> [k \in Slots |-> NoCheck]]
    /\ overlapped = [c \in Clients |-> FALSE]
    /\ last = NoRequest

Init == InitWith({1})

\* The configurations of the runs with several browsers or with requests
\* in flight: the vocabulary [ab, ba, b], a seed that is passed on, and a
\* threshold that starts a game.
GameConfigs ==
    [VOCAB : { << <<"a","b">>, <<"b","a">>, <<"b">> >> },
     SEED : { [kind |-> "int", val |-> 1] },
     SUCCESS_AT_COUNT : 1..MaxGameThreshold]

InitGame(cs) == InitWith(cs) /\ CONFIG \in GameConfigs

\* Two browsers, each with its own session.
InitMulti == InitGame({1, 2})

\* ------------------------------------------------------ request handling

\* error_500 without its assertion: it renders 500.html and returns.
ErrorHandler500Returns == FALSE

\* error_500: "assert not True" raises inside the handler, so Flask never
\* builds a response from it.
ErrorHandler500Raises == TRUE

\* What is stored once the request is over.  Flask saves the session while
\* it finalises a response; a view that raised leads to error_500 (or, in
\* debug mode, straight to the WSGI server), and no response is finalised.
StoredAfter(old, working, raised) ==
    IF raised /\ ErrorHandler500Raises THEN old ELSE working

\* One session kept in the process for every browser.
StoreSessionShared(all, c, sess) == [x \in Clients |-> sess]

\* flask.session belongs to the browser that sent the request: storing it
\* changes that browser's session only.
StoreSession(all, c, sess) == [all EXCEPT ![c] = sess]

\* ------------------------------------------------------------------ index

\* The threshold taken as it is, the vocabulary size forgotten.
TargetCountNoClamp(vocab, threshold) == threshold

\* min(len(flask.g.vocab), CONFIG.SUCCESS_AT_COUNT)
TargetCount(vocab, threshold) == Min(Len(vocab), threshold)

\* seed=None if not SEED or SEED < 0 else SEED
SeedArg(seed) ==
    IF seed.isNone \/ seed.val = 0 \/ seed.val < 0 THEN NoneInt ELSE seed

\* The view up to the call of jumbled, when that call raises.
IndexUntilJumbled(sess, tc) == SetKey(sess, "target_count", tc)

\* The view's session once it has set all three keys.
IndexSession(sess, tc, j) ==
    SetKey(SetKey(SetKey(sess, "target_count", tc), "jumble", j),
           "matches", << >>)

\* assert flask.session["matches"] == []; assert flask.session["target_count"] > 0
IndexAssertsHold(sess) == sess.matches = << >> /\ sess.target_count > 0

Index(c) ==
    /\ up
    /\ LET vocab == AsList(WORDS)
           tc    == TargetCount(vocab, CONFIG.SUCCESS_AT_COUNT)
           seed  == SeedArg(SEED)
       IN  IF JumbledRaises(vocab, tc)
           THEN /\ session' = StoreSession(session, c,
                      StoredAfter(session[c],
                                  IndexUntilJumbled(session[c], tc), TRUE))
                /\ found' = found
                /\ phase' = phase
                /\ last' = [NoRequest EXCEPT !.op = "index", !.client = c,
                              !.before = session[c], !.raised = TRUE,
                              !.seed = seed, !.phase = phase[c]]
           ELSE \E j \in Jumbled(vocab, tc, seed) :
                  LET working == IndexSession(session[c], tc, j)
                      raised  == ~IndexAssertsHold(working)
                  IN  /\ session' = StoreSession(session, c,
                            StoredAfter(session[c], working, raised))
                      /\ found' = IF raised THEN found
                                   ELSE [found EXCEPT ![c] = << >>]
                      /\ phase' = IF raised THEN phase
                                   ELSE [phase EXCEPT ![c] =
                                           IF @ = "Completed" THEN "Restarted"
                                           ELSE "InProgress"]
                      /\ last' = [NoRequest EXCEPT !.op = "index",
                                    !.client = c, !.before = session[c],
                                    !.raised = raised, !.seed = seed,
                                    !.phase = phase[c]]
    /\ UNCHANGED <<CONFIG, up, WORDS, SEED, clients, inflight, overlapped>>

\* ------------------------------------------------------------- keep_going

\* The lines keep_going has commented out: matched and in_jumble.
KeepGoingMatchInJumble(sess, text) ==
    Has(WORDS, text) /\ Contains(sess.jumble, text)

\* matched = WORDS.has(text); the session is not looked at.
KeepGoingMatched(sess, text) == Has(WORDS, text)

KeepGoing(c, text) ==
    /\ up
    /\ last' = [NoRequest EXCEPT !.op = "keep_going", !.client = c,
                  !.text = text, !.before = session[c],
                  !.phase = phase[c],
                  !.response = [NoResponse EXCEPT !.keys = {"matched"},
                                  !.matched = KeepGoingMatched(session[c],
                                                               text)]]
    /\ UNCHANGED <<CONFIG, up, WORDS, SEED, clients, session, found, phase,
                   inflight, overlapped>>

\* ------------------------------------------------------------------ check

\* The quota test counting the text being checked as found already.
QuotaMetOffByOne(matches, target) == Len(matches) + 1 >= target

\* The quota test with > for >=.
QuotaMetStrict(matches, target) == Len(matches) > target

\* result = len(matches) >= flask.session["target_count"]
QuotaMet(matches, target) == Len(matches) >= target

\* The chain with the quota test moved behind the candidate's tests.
BranchQuotaLast(result, matched, in_jumble, in_matches) ==
    IF matched /\ in_jumble /\ ~in_matches /\ ~result THEN "NewMatch"
    ELSE IF in_matches THEN "AlreadyFound"
    ELSE IF result THEN "Success"
    ELSE IF ~matched THEN "NotInVocabulary"
    ELSE IF ~in_jumble THEN "NotFromJumbleLetters"
    ELSE "AssertFalse"

\* The chain with "in_jumble" missing from the new-match test.
BranchNoJumble(result, matched, in_jumble, in_matches) ==
    IF result THEN "Success"
    ELSE IF matched /\ ~in_matches THEN "NewMatch"
    ELSE IF in_matches THEN "AlreadyFound"
    ELSE IF ~matched THEN "NotInVocabulary"
    ELSE IF ~in_jumble THEN "NotFromJumbleLetters"
    ELSE "AssertFalse"

\* The chain with "not (text in matches)" missing from the new-match test.
BranchNoDupCheck(result, matched, in_jumble, in_matches) ==
    IF result THEN "Success"
    ELSE IF matched /\ in_jumble THEN "NewMatch"
    ELSE IF in_matches THEN "AlreadyFound"
    ELSE IF ~matched THEN "NotInVocabulary"
    ELSE IF ~in_jumble THEN "NotFromJumbleLetters"
    ELSE "AssertFalse"

\* The chain with its last two tests in the other order.
BranchJumbleFirst(result, matched, in_jumble, in_matches) ==
    IF result THEN "Success"
    ELSE IF matched /\ in_jumble /\ ~in_matches THEN "NewMatch"
    ELSE IF in_matches THEN "AlreadyFound"
    ELSE IF ~in_jumble THEN "NotFromJumbleLetters"
    ELSE IF ~matched THEN "NotInVocabulary"
    ELSE "AssertFalse"

\* The chain with "not matched" narrowed to texts that fail both tests.
BranchGap(result, matched, in_jumble, in_matches) ==
    IF result THEN "Success"
    ELSE IF matched /\ in_jumble /\ ~in_matches THEN "NewMatch"
    ELSE IF in_matches THEN "AlreadyFound"
    ELSE IF ~matched /\ ~in_jumble THEN "NotInVocabulary"
    ELSE IF ~in_jumble THEN "NotFromJumbleLetters"
    ELSE "AssertFalse"

\* The if/elif chain of check: the branch taken.
Branch(result, matched, in_jumble, in_matches) ==
    IF result THEN "Success"
    ELSE IF matched /\ in_jumble /\ ~in_matches THEN "NewMatch"
    ELSE IF in_matches THEN "AlreadyFound"
    ELSE IF ~matched THEN "NotInVocabulary"
    ELSE IF ~in_jumble THEN "NotFromJumbleLetters"
    ELSE "AssertFalse"

\* The append forgotten.
AppendMatchDropped(matches, text) == matches

\* matches.insert(0, text)
PrependMatch(matches, text) == <<text>> \o matches

\* matches.append(text)
AppendMatch(matches, text) == Append(matches, text)

\* The message each branch formats.
Message(branch, text, jumble) ==
    CASE branch = "Success" ->
           [fmt |-> "Congrats you solved it, press any character to continue!",
            args |-> << >>]
      [] branch = "NewMatch" ->
           [fmt |-> "Congrats you found the match: {}. Clear the box to continue",
            args |-> <<text>>]
      [] branch = "AlreadyFound" ->
           [fmt |-> "You already found {}", args |-> <<text>>]
      [] branch = "NotInVocabulary" ->
           [fmt |-> "{} isn't in the list of words", args |-> <<text>>]
      [] branch = "NotFromJumbleLetters" ->
           [fmt |-> "\"{}\" can't be made from the letters {}",
            args |-> <<text, jumble>>]
      [] OTHER -> NoMessage

\* What check does with the session sess and the text: the session it
\* leaves in the request, whether it raised, the branch taken and the JSON
\* sent.  session["jumble"] and session["target_count"] raise KeyError when
\* the key is not set; the last branch raises AssertionError.
CheckView(sess, text, onNone) ==
    IF ~({"jumble", "target_count"} \subseteq sess.keys)
    THEN [session |-> sess, raised |-> TRUE, outcome |-> "KeyError",
          response |-> NoResponse]
    ELSE
      LET jumble    == sess.jumble
          matches   == IF "matches" \in sess.keys THEN sess.matches ELSE << >>
          in_jumble == LetterBagContains(jumble, text, onNone)
          matched   == Has(WORDS, text)
          result    == QuotaMet(matches, sess.target_count)
          branch    == Branch(result, matched, in_jumble, InList(text, matches))
          appended  == AppendMatch(matches, text)
          \* response_data; 'matches' is the list object that is appended to
          data(ms)  == [NoResponse EXCEPT
                          !.keys = {"result", "redirect_url", "matches",
                                    "target", "message"},
                          !.matches = ms, !.target = sess.target_count,
                          !.message = Message(branch, text, jumble)]
      IN  CASE branch = "Success" ->
                 [session |-> sess, raised |-> FALSE, outcome |-> branch,
                  response |-> [NoResponse EXCEPT
                     !.keys = {"message", "redirect_url", "result"},
                     !.message = Message(branch, text, jumble),
                     !.redirect_url = "/success", !.result = TRUE]]
            [] branch = "NewMatch" ->
                 [session |-> SetKey(sess, "matches", appended),
                  raised |-> FALSE, outcome |-> branch,
                  response |-> data(appended)]
            [] branch = "AssertFalse" ->
                 [session |-> sess, raised |-> TRUE, outcome |-> branch,
                  response |-> NoResponse]
            [] OTHER ->
                 [session |-> sess, raised |-> FALSE, outcome |-> branch,
                  response |-> data(matches)]

\* The values LetterBag.contains may yield for a missing text.
OnNone(text) == IF text = NoneText THEN BOOLEAN ELSE {FALSE}

\* check answers a request that came with the session sent: the view runs
\* on that session, and the browser keeps the session it has unless the
\* response carries a new one (the view wrote to the session and did not
\* raise).
Respond(c, text, sent, onNone) ==
    LET r       == CheckView(sent, text, onNone)
        working == IF r.session = sent THEN session[c] ELSE r.session
    IN  /\ session' = StoreSession(session, c,
                          StoredAfter(session[c], working, r.raised))
        /\ found' = IF r.outcome = "NewMatch"
                     THEN [found EXCEPT ![c] = Append(@, text)]
                     ELSE found
        /\ phase' = IF r.raised THEN phase
                     ELSE [phase EXCEPT ![c] =
                             IF r.outcome = "Success" THEN "Completed"
                             ELSE "InProgress"]
        /\ last' = [NoRequest EXCEPT !.op = "check", !.client = c,
                      !.text = text, !.before = sent,
                      !.raised = r.raised, !.outcome = r.outcome,
                      !.response = r.response, !.phase = phase[c]]

\* A check answered before the browser sends anything else.
Check(c, text) ==
    /\ up
    /\ \E onNone \in OnNone(text) : Respond(c, text, session[c], onNone)
    /\ UNCHANGED <<CONFIG, up, WORDS, SEED, clients, inflight, overlapped>>

\* ------------------------------------------------ checks that overlap

\* The texts that are words of the vocabulary: the only texts a check can
\* record.  The checks that overlap, and those of the player of one game,
\* are checks of these.
VocabTexts == {text \in Texts : Has(WORDS, text)}

\* The browser sends a check with the session it holds; the answer is still
\* to come.
CheckBegin(c, k, text) ==
    /\ up
    /\ ~inflight[c][k].busy
    /\ \E onNone \in OnNone(text) :
         inflight' = [inflight EXCEPT
                        ![c][k] = SentCheck(text, session[c], onNone)]
    /\ UNCHANGED <<CONFIG, up, WORDS, SEED, clients, session, found, phase,
                   overlapped, last>>

\* The answer to the check of slot k arrives.  The view ran on the session
\* that came with the request; if the browser's session has changed since,
\* the two requests were not serialised.
CheckEnd(c, k) ==
    /\ up
    /\ inflight[c][k].busy
    /\ LET req == inflight[c][k]
       IN  /\ Respond(c, req.text, req.sent, req.onNone)
           /\ overlapped' = [overlapped EXCEPT
                               ![c] = @ \/ req.sent # session[c]]
    /\ inflight' = [inflight EXCEPT ![c][k] = NoCheck]
    /\ UNCHANGED <<CONFIG, up, WORDS, SEED, clients>>

\* ---------------------------------------------------------- specification

Next ==
    \/ \E c \in clients : Index(c)
    \/ \E c \in clients, text \in Texts : KeepGoing(c, text)
    \/ \E c \in clients, text \in Texts : Check(c, text)

Spec == Init /\ [][Next]_vars

\* One browser whose checks may overlap: each is sent with the session the
\* browser holds then and answered at any later time.
NextRace ==
    \/ \E c \in clients : Index(c)
    \/ \E c \in clients, k \in Slots, text \in VocabTexts :
          CheckBegin(c, k, text)
    \/ \E c \in clients, k \in Slots : CheckEnd(c, k)

SpecRace == InitGame({1}) /\ [][NextRace]_vars

\* One game of one player: the game is started once, and the player goes on
\* checking words of the vocabulary and leaves none untried for ever.
AllWords == UNION { {src[i] : i \in 1..Len(src)} : src \in VocabSources }

PlayerStarts(c) == ~InProgress(session[c]) /\ Index(c)

PlayerChecks(c, text) == Check(c, text)

PlayerTries(word) == Has(WORDS, word) /\ PlayerChecks(1, word)

NextPlay ==
    \/ \E c \in clients : PlayerStarts(c)
    \/ \E c \in clients, text \in VocabTexts : PlayerChecks(c, text)

SpecPlay ==
    /\ Init
    /\ [][NextPlay]_vars
    /\ \A word \in AllWords : WF_vars(PlayerTries(word))

\* The same requests, coming from two browsers in any order.
SpecMulti == InitMulti /\ [][Next]_vars

\* ----------------------------------------------------------------- claims

\* The last request was a check on a session that index had set up.
CheckedStarted == last.op = "check" /\ InProgress(last.before)

\* The session of the last request's browser, as stored now.
Now == session[last.client]

\* len(matches) >= target_count held when the last request came in.
QuotaMetBefore == Len(last.before.matches) >= last.before.target_count

NoDuplicates(l) == \A i, j \in 1..Len(l) : l[i] = l[j] => i = j

\* C1: in every reachable state, a session's matches are never more than
\* its target_count.
C1_MatchesWithinTarget ==
    \A c \in Clients :
       {"matches", "target_count"} \subseteq session[c].keys
          => Len(session[c].matches) <= session[c].target_count

\* C1 witness: with the quota met, a new, valid, derivable word was
\* submitted and was not recorded.
C1_Witness ==
    /\ CheckedStarted /\ QuotaMetBefore
    /\ Has(WORDS, last.text) /\ Contains(last.before.jumble, last.text)
    /\ ~InList(last.text, last.before.matches)
    /\ Len(Now.matches) = Now.target_count

\* C2: a check on a session that already holds target_count distinct matches
\* answers Success (result true, redirect to the success page) whatever the
\* text is.
C2_QuotaMetGivesSuccess ==
    (CheckedStarted /\ QuotaMetBefore)
       => /\ ~last.raised
          /\ last.outcome = "Success"
          /\ last.response.result = TRUE
          /\ last.response.redirect_url = "/success"

\* C2 witness: the quota was met with distinct matches and the text
\* submitted was one of them.
C2_Witness ==
    /\ CheckedStarted
    /\ Len(last.before.matches) = last.before.target_count
    /\ NoDuplicates(last.before.matches)
    /\ InList(last.text, last.before.matches)
    /\ last.outcome = "Success"

\* C3: every word in matches is in the vocabulary and derivable from the
\* session's jumble, and a word is appended only when it is both.
C3_MatchesAreValid ==
    /\ \A c \in Clients :
          "matches" \in session[c].keys
             => \A i \in 1..Len(session[c].matches) :
                   /\ InList(session[c].matches[i], WORDS)
                   /\ Contains(session[c].jumble, session[c].matches[i])
    /\ (last.op = "check" /\ Now.matches # last.before.matches)
          => /\ InList(last.text, WORDS)
             /\ Contains(last.before.jumble, last.text)
             /\ Now.matches = Append(last.before.matches, last.text)
             /\ Now.jumble = last.before.jumble

\* C3 witness: a second word has just been appended.
C3_Witness ==
    /\ last.op = "check" /\ last.outcome = "NewMatch"
    /\ Len(Now.matches) >= 2

\* C4: with the quota not met, the outcome is NewMatch iff the text is in
\* the vocabulary, derivable and not yet in matches; else AlreadyFound iff
\* it is in matches; else NotInVocabulary iff it is not in the vocabulary;
\* else NotFromJumbleLetters.  NewMatch appends the text to matches.
C4_FirstGuardDecides ==
    (CheckedStarted /\ ~QuotaMetBefore) =>
       LET inVocab   == InList(last.text, WORDS)
           derivable == Contains(last.before.jumble, last.text)
           inMatches == InList(last.text, last.before.matches)
           new       == inVocab /\ derivable /\ ~inMatches
       IN  /\ (last.outcome = "NewMatch") <=> new
           /\ ~new => ((last.outcome = "AlreadyFound") <=> inMatches)
           /\ (~new /\ ~inMatches)
                 => ((last.outcome = "NotInVocabulary") <=> ~inVocab)
           /\ (~new /\ ~inMatches /\ inVocab)
                 => last.outcome = "NotFromJumbleLetters"
           /\ (last.outcome = "NewMatch")
                 => Now.matches = Append(last.before.matches, last.text)

\* C4 witness: a text that is neither in the vocabulary nor derivable was
\* answered NotInVocabulary.
C4_Witness ==
    /\ CheckedStarted /\ ~QuotaMetBefore
    /\ last.text # NoneText
    /\ ~InList(last.text, WORDS)
    /\ ~Contains(last.before.jumble, last.text)
    /\ last.outcome = "NotInVocabulary"

\* C5: a check on a started session always takes one of the five branches
\* Success, NewMatch, AlreadyFound, NotInVocabulary, NotFromJumbleLetters;
\* the final "assert False" is never reached.
C5_GuardsExhaustive ==
    /\ last.outcome # "AssertFalse"
    /\ CheckedStarted
          => /\ ~last.raised
             /\ last.outcome \in {"Success", "NewMatch", "AlreadyFound",
                                  "NotInVocabulary", "NotFromJumbleLetters"}

\* C5 witness: the last test of the chain was the one that held.
C5_Witness == CheckedStarted /\ last.outcome = "NotFromJumbleLetters"

\* C6: matches never holds a word twice, and holds the words in the order
\* in which they were answered NewMatch since the last start.
C6_MatchesDistinctInOrder ==
    \A c \in Clients :
       "matches" \in session[c].keys
          => /\ NoDuplicates(session[c].matches)
             /\ session[c].matches = found[c]

\* C6 witness: with two words found, one of them was submitted again.
C6_Witness ==
    /\ CheckedStarted /\ last.outcome = "AlreadyFound"
    /\ Len(Now.matches) >= 2

\* C7: a check without a text, on a started session whose quota is not met,
\* raises nothing, answers NotInVocabulary and leaves the session as it was.
C7_MissingTextNotInVocabulary ==
    (CheckedStarted /\ ~QuotaMetBefore /\ last.text = NoneText)
       => /\ ~last.raised
          /\ last.outcome = "NotInVocabulary"
          /\ Now = last.before

\* C7 witness: such a check, made after a word had been found.
C7_Witness ==
    /\ CheckedStarted /\ ~QuotaMetBefore /\ last.text = NoneText
    /\ Len(last.before.matches) >= 1
    /\ last.outcome = "NotInVocabulary"

\* C8: an index that starts a game has passed a seed to jumbled exactly when
\* the configured seed is an integer that is not negative, 0 included.
C8_SeedPassedIffNonNegative ==
    (last.op = "index" /\ ~last.raised)
       => (~last.seed.isNone
              <=> (CONFIG.SEED.kind = "int" /\ CONFIG.SEED.val >= 0))

\* C9: while a game is in progress on a non-empty vocabulary, target_count
\* is min(vocabulary size, SUCCESS_AT_COUNT) and is greater than 0.
C9_TargetCountIsMin ==
    \A c \in Clients :
       (InProgress(session[c]) /\ Len(WORDS) > 0)
          => /\ session[c].target_count
                  = Min(Len(WORDS), CONFIG.SUCCESS_AT_COUNT)
             /\ session[c].target_count > 0

\* C9 witness: a game started with a threshold above the vocabulary size.
C9_Witness ==
    /\ last.op = "index" /\ ~last.raised /\ InProgress(Now)
    /\ CONFIG.SUCCESS_AT_COUNT > Len(WORDS)

\* C10: when min(vocabulary size, SUCCESS_AT_COUNT) <= 0 every index fails
\* and no session ever holds a jumble, a target_count or matches.
C10_FailedStartLeavesNoGame ==
    Min(Len(WORDS), CONFIG.SUCCESS_AT_COUNT) <= 0
       => /\ \A c \in Clients : session[c] = EmptySession
          /\ last.op = "index" => last.raised

\* C10 witness: an index that failed on a non-empty vocabulary.
C10_Witness ==
    /\ last.op = "index" /\ last.raised
    /\ Len(WORDS) > 0 /\ CONFIG.SUCCESS_AT_COUNT <= 0

\* The four answers that depend on the text.
TextOutcomes ==
    {"NewMatch", "AlreadyFound", "NotInVocabulary", "NotFromJumbleLetters"}

\* C11: an index that succeeds, whatever the session held before, stores a
\* jumble made by jumbled, target_count = min(vocabulary size,
\* SUCCESS_AT_COUNT) and empty matches; the first check after a start from
\* Completed is answered on its text, not with Success.
C11_StartResets ==
    /\ (last.op = "index" /\ ~last.raised)
          => /\ InProgress(Now)
             /\ Now.matches = << >>
             /\ Now.target_count = Min(Len(WORDS), CONFIG.SUCCESS_AT_COUNT)
             /\ Now.jumble \in Jumbled(WORDS, Now.target_count, SeedArg(SEED))
             /\ phase[last.client] \in {"InProgress", "Restarted"}
    /\ (last.op = "check" /\ last.phase = "Restarted")
          => /\ ~last.raised
             /\ last.before.matches = << >>
             /\ last.outcome \in TextOutcomes

\* C11 witness: the first check after a start from Completed found a word.
C11_Witness ==
    /\ last.op = "check" /\ last.phase = "Restarted"
    /\ last.outcome = "NewMatch"

\* C12: keep_going answers with the vocabulary membership of the text and
\* nothing else, whatever the session holds, and leaves the session as it
\* was.
C12_PeekIsMembership ==
    last.op = "keep_going"
       => /\ ~last.raised
          /\ last.response.keys = {"matched"}
          /\ last.response.matched
                <=> (last.text # NoneText /\ InList(last.text, WORDS))
          /\ session[last.client] = last.before

\* C12 witness: a vocabulary word that the jumble of the game in progress
\* cannot give was answered "matched".
C12_Witness ==
    /\ last.op = "keep_going" /\ InProgress(last.before)
    /\ last.response.matched
    /\ ~Contains(last.before.jumble, last.text)

\* The texts answered NewMatch in this game before the last request.
FoundBefore ==
    IF last.op = "check" /\ last.outcome = "NewMatch"
    THEN SubSeq(found[last.client], 1, Len(found[last.client]) - 1)
    ELSE found[last.client]

\* C13: the matches list sent with a NewMatch answer holds the text; a later
\* check of a text answered NewMatch in the same game, made while the quota
\* is not met, is answered AlreadyFound and leaves matches as they were.
C13_RepeatIsAlreadyFound ==
    /\ (last.op = "check" /\ last.outcome = "NewMatch")
          => /\ "matches" \in last.response.keys
             /\ InList(last.text, last.response.matches)
             /\ last.response.matches = Now.matches
    /\ (CheckedStarted /\ ~QuotaMetBefore /\ InList(last.text, FoundBefore))
          => /\ last.outcome = "AlreadyFound"
             /\ Now.matches = last.before.matches

\* C13 witness: a word found earlier in the game was checked again before
\* the quota was met.
C13_Witness ==
    /\ CheckedStarted /\ ~QuotaMetBefore
    /\ InList(last.text, FoundBefore)
    /\ last.outcome = "AlreadyFound"

\* C14: every answer of check, Success included, carries the matches list,
\* the target count and a message.
C14_EveryAnswerCarriesFields ==
    (CheckedStarted /\ ~last.raised)
       => {"matches", "target", "message"} \subseteq last.response.keys

\* C18: a check or a keep_going never changes jumble or target_count; a
\* check answered NewMatch appends exactly its text to matches, and every
\* other answer leaves the whole session as it was.
C18_OnlyNewMatchChangesSession ==
    /\ last.op \in {"check", "keep_going"}
          => /\ Now.keys = last.before.keys
             /\ Now.jumble = last.before.jumble
             /\ Now.target_count = last.before.target_count
    /\ (last.op = "check" /\ last.outcome = "NewMatch")
          => Now.matches = Append(last.before.matches, last.text)
    /\ (last.op \in {"check", "keep_going"} /\ last.outcome # "NewMatch")
          => Now = last.before

\* C18 witness: with a word already found, a vocabulary word that the jumble
\* cannot give was refused and the session stayed as it was.
C18_Witness ==
    /\ CheckedStarted /\ last.outcome = "NotFromJumbleLetters"
    /\ Len(last.before.matches) >= 1
    /\ Now = last.before

\* C19: the check that records the target_count-th match answers NewMatch
\* (result false, no redirect); Success is answered only when the quota was
\* met as the check came in, after at least target_count earlier checks of
\* the game, each answered NewMatch.
C19_SuccessOnlyAfterQuota ==
    /\ (CheckedStarted /\ Now.matches # last.before.matches
          /\ Len(Now.matches) = Now.target_count)
          => /\ last.outcome = "NewMatch"
             /\ last.response.result = FALSE
             /\ last.response.redirect_url = "False"
    /\ (last.op = "check" /\ last.outcome = "Success")
          => /\ QuotaMetBefore
             /\ Len(FoundBefore) >= last.before.target_count
             /\ last.before.target_count >= 1

\* C19 witness: the last match of the quota has just been recorded.
C19_Witness ==
    /\ CheckedStarted /\ last.outcome = "NewMatch"
    /\ Len(Now.matches) = Now.target_count
    /\ Now.target_count >= 2

\* C20: after a check has answered Success, every further check of that
\* game answers Success and leaves the session as it was.
C20_CompletedIsAbsorbing ==
    (last.op = "check" /\ last.phase = "Completed")
       => /\ ~last.raised
          /\ last.outcome = "Success"
          /\ Now = last.before
          /\ phase[last.client] = "Completed"

\* C20 witness: after a Success, a vocabulary word that the jumble gives and
\* that is not in matches was checked.
C20_Witness ==
    /\ last.op = "check" /\ last.phase = "Completed"
    /\ Has(WORDS, last.text) /\ Contains(last.before.jumble, last.text)
    /\ ~InList(last.text, last.before.matches)
    /\ last.outcome = "Success"

\* C15: a request of one browser changes neither the vocabulary nor the
\* session of any other browser; the vocabulary never changes.
C15_SessionsIsolated ==
    [][ /\ WORDS' = WORDS
        /\ \A c \in Clients :
              c # last'.client => session'[c] = session[c] ]_vars

\* C15 witness: two games in progress with different matches, the last
\* request being a check that found a word.
C15_Witness ==
    /\ InProgress(session[1]) /\ InProgress(session[2])
    /\ session[1].matches # << >> /\ session[2].matches # << >>
    /\ session[1].matches # session[2].matches
    /\ last.op = "check" /\ last.outcome = "NewMatch"

\* C16: a text answered NewMatch in the current game is missing from the
\* stored matches only if some check of that browser was answered on an
\* outdated session (two checks read the session before either wrote it
\* back); with the checks serialised every such text stays in matches.
C16_LossOnlyWhenOverlapped ==
    \A c \in Clients :
       ~overlapped[c]
          => \A i \in 1..Len(found[c]) : InList(found[c][i], session[c].matches)

\* C16 witness: two checks were answered NewMatch, no request is in flight
\* any more, and the stored matches lack one of the two texts.
C16_Witness ==
    /\ \A k \in Slots : ~inflight[1][k].busy
    /\ Len(found[1]) = 2
    /\ \E i \in 1..2 : ~InList(found[1][i], session[1].matches)
    /\ last.op = "check" /\ last.outcome = "NewMatch"

\* The words of the vocabulary that the jumble of sess gives.
Derivable(sess) ==
    {i \in 1..Len(WORDS) : Contains(sess.jumble, WORDS[i])}

\* C17: the jumble of a game in progress gives at least target_count words
\* of the vocabulary, and a player who goes on checking and leaves no word
\* of the vocabulary untried is eventually answered Success.
C17_SuccessIsReached ==
    /\ [](\A c \in Clients :
            InProgress(session[c])
               => Cardinality(Derivable(session[c])) >= session[c].target_count)
    /\ (InProgress(session[1]) ~> phase[1] = "Completed")

\* C17 witness: Success was answered after exactly target_count words had
\* been found, in a game whose jumble gives no more words than that.
C17_Witness ==
    /\ last.op = "check" /\ last.outcome = "Success"
    /\ phase[1] = "Completed"
    /\ Len(found[1]) = session[1].target_count
    /\ Cardinality(Derivable(session[1])) = session[1].target_count

====
